---- MODULE Spec2Model ----
(***************************************************************************)
(* Model of selectUtxoBnBOptimized (src/utxo_algorithm.js): branch-and-    *)
(* bound coin selection over an explicit stack, with effective-value       *)
(* filtering, a no-change acceptance window and a result builder.          *)
(* Sequences are 1-based here; originalIndex and idx keep the 0-based      *)
(* values of the JavaScript source.                                        *)
(***************************************************************************)
EXTENDS Integers, Sequences, FiniteSets, TLC

\* ---------------------------------------------------------------- bounds
MaxLen == 3
MaxCalls == 2

\* Argument values a caller may pass (the function validates nothing).
Amounts == {0, 148, 1000, 23500, 25000, 30000}
Targets == {0, 800, 23000, 50000}
FeeRates == {-1, 0, 1, 10}

\* ------------------------------------------------------ program constants
BYTES_PER_INPUT == 148
BYTES_PER_OUTPUT == 34
BYTES_OVERHEAD == 10

VARIABLES utxos, targetAmount, feeRate, pc, effectiveUtxos, target, upperBound, totalRemaining, stack, node, bestSelection, result, visited, calls, first

vars == <<utxos, targetAmount, feeRate, pc, effectiveUtxos, target, upperBound, totalRemaining, stack, node, bestSelection, result, visited, calls, first>>

\* ------------------------------------------------------------- helpers
SeqsUpTo(S, n) == UNION {[1..k -> S] : k \in 0..n}

RECURSIVE SumAmounts(_)
SumAmounts(s) == IF s = <<>> THEN 0 ELSE s[1] + SumAmounts(Tail(s))

NullSelection == [null |-> TRUE, amounts |-> <<>>]

NullResult == [null |-> TRUE, selectedUtxos |-> <<>>, fee |-> 0, totalAmount |-> 0, excess |-> 0]

RootNode == [idx |-> 0, currentEffectiveSum |-> 0, selectedUtxos |-> <<>>]

\* ------------------------------------------------ effective-value filter
EffectiveValue_SignSlip(amount, f) == amount + BYTES_PER_INPUT * f

EffectiveValue(amount, f) == amount - BYTES_PER_INPUT * f

MapUnits(us, f) == [i \in 1..Len(us) |-> [amount |-> us[i], effectiveValue |-> EffectiveValue(us[i], f), originalIndex |-> i - 1]]

IsNotDust_OrZero(u) == u.effectiveValue >= 0

IsNotDust(u) == u.effectiveValue > 0

FilterDust(s) == SelectSeq(s, IsNotDust)

\* Array.prototype.sort with comparator b.effectiveValue - a.effectiveValue:
\* descending, and stable (equal keys keep their input order).
RECURSIVE InsertDesc(_, _)
InsertDesc(sorted, u) == IF sorted = <<>> THEN <<u>> ELSE IF sorted[1].effectiveValue >= u.effectiveValue THEN <<sorted[1]>> \o InsertDesc(Tail(sorted), u) ELSE <<u>> \o sorted

RECURSIVE StableSortDesc(_)
StableSortDesc(s) == IF s = <<>> THEN <<>> ELSE InsertDesc(StableSortDesc(SubSeq(s, 1, Len(s) - 1)), s[Len(s)])

IsSortedDesc(s) == \A i \in 1..(Len(s) - 1) : s[i].effectiveValue >= s[i + 1].effectiveValue

SeqPermutations(s) == {[i \in 1..Len(s) |-> s[p[i]]] : p \in {q \in [1..Len(s) -> 1..Len(s)] : \A i, j \in 1..Len(s) : q[i] = q[j] => i = j}}

SortOutcomes_Unstable(s) == {p \in SeqPermutations(s) : IsSortedDesc(p)}

\* The arrays .sort() may produce for input s: the one stable ordering.
SortOutcomes(s) == {StableSortDesc(s)}

\* ------------------------------------------------------ bound calculator
Target_NoBaseFee(t, f) == t

Target(t, f) == t + (BYTES_PER_OUTPUT + BYTES_OVERHEAD) * f

CostOfChange_WithInput(f) == (BYTES_PER_INPUT + BYTES_PER_OUTPUT + BYTES_OVERHEAD) * f

CostOfChange(f) == (BYTES_PER_OUTPUT + BYTES_OVERHEAD) * f

UpperBound_Doubled(t, f) == Target(t, f) + 4 * CostOfChange(f)

UpperBound(t, f) == Target(t, f) + CostOfChange(f)

\* Suffix sums: element i+1 is totalRemaining[i] of the source.
RECURSIVE TotalRemaining(_)
TotalRemaining(e) == IF e = <<>> THEN <<>> ELSE LET rest == TotalRemaining(Tail(e)) IN <<e[1].effectiveValue + (IF rest = <<>> THEN 0 ELSE rest[1])>> \o rest

\* ------------------------------------------------------- search rules
IsAccept_NoUpper(n, tgt, ub) == n.currentEffectiveSum >= tgt

IsAccept(n, tgt, ub) == n.currentEffectiveSum >= tgt /\ n.currentEffectiveSum <= ub

IsDeadEnd(n, e, ub) == n.idx >= Len(e) \/ n.currentEffectiveSum > ub

IsPrune_OrEqual(n, tr, tgt) == n.currentEffectiveSum + tr[n.idx + 1] <= tgt

IsPrune(n, tr, tgt) == n.currentEffectiveSum + tr[n.idx + 1] < tgt

ExcludeChild(n) == [idx |-> n.idx + 1, currentEffectiveSum |-> n.currentEffectiveSum, selectedUtxos |-> n.selectedUtxos]

IncludeChild_SkipAhead(n, e) == [idx |-> n.idx + 2, currentEffectiveSum |-> n.currentEffectiveSum + e[n.idx + 1].effectiveValue, selectedUtxos |-> Append(n.selectedUtxos, e[n.idx + 1])]

IncludeChild_SumNotUpdated(n, e) == [idx |-> n.idx + 1, currentEffectiveSum |-> n.currentEffectiveSum, selectedUtxos |-> Append(n.selectedUtxos, e[n.idx + 1])]

IncludeChild(n, e) == [idx |-> n.idx + 1, currentEffectiveSum |-> n.currentEffectiveSum + e[n.idx + 1].effectiveValue, selectedUtxos |-> Append(n.selectedUtxos, e[n.idx + 1])]

\* The two pushes of one Branch step; the top of the stack is the last element.
PushChildren_IncludeBelow(st, n, e) == Append(Append(st, IncludeChild(n, e)), ExcludeChild(n))

PushChildren(st, n, e) == Append(Append(st, ExcludeChild(n)), IncludeChild(n, e))

SelectionAmounts(sel) == [i \in 1..Len(sel) |-> sel[i].amount]

\* -------------------------------------------------------- result builder
TxSize_NoOverhead(inputCount) == inputCount * BYTES_PER_INPUT + BYTES_PER_OUTPUT

TxSize(inputCount) == inputCount * BYTES_PER_INPUT + BYTES_PER_OUTPUT + BYTES_OVERHEAD

Fee(inputCount, f) == TxSize(inputCount) * f

BuildResult(best, t, f) == [null |-> FALSE, selectedUtxos |-> best, fee |-> Fee(Len(best), f), totalAmount |-> SumAmounts(best), excess |-> SumAmounts(best) - t - Fee(Len(best), f)]

\* ------------------------------------------------------------ behaviour
Init ==
  /\ utxos \in SeqsUpTo(Amounts, MaxLen)
  /\ targetAmount \in Targets
  /\ feeRate \in FeeRates
  /\ pc = "start"
  /\ effectiveUtxos = <<>>
  /\ target = 0
  /\ upperBound = 0
  /\ totalRemaining = <<>>
  /\ stack = <<>>
  /\ node = RootNode
  /\ bestSelection = NullSelection
  /\ result = NullResult
  /\ visited = <<>>
  /\ calls = 1
  /\ first = [res |-> NullResult, sel |-> <<>>]

\* Lines 12-46: filter, sort, bounds, suffix sums, initial stack.
Call ==
  /\ pc = "start"
  /\ \E e \in SortOutcomes(FilterDust(MapUnits(utxos, feeRate))) :
       /\ effectiveUtxos' = e
       /\ totalRemaining' = TotalRemaining(e)
  /\ target' = Target(targetAmount, feeRate)
  /\ upperBound' = UpperBound(targetAmount, feeRate)
  /\ stack' = <<RootNode>>
  /\ bestSelection' = NullSelection
  /\ pc' = "loop"
  /\ UNCHANGED <<utxos, targetAmount, feeRate, node, result, visited, calls, first>>

Top == stack[Len(stack)]

Popped == SubSeq(stack, 1, Len(stack) - 1)

\* Lines 49-55: pop, success condition, break.
Accept ==
  /\ pc = "loop" /\ stack # <<>>
  /\ IsAccept(Top, target, upperBound)
  /\ node' = Top
  /\ stack' = Popped
  /\ visited' = Append(visited, Top)
  /\ bestSelection' = [null |-> FALSE, amounts |-> SelectionAmounts(Top.selectedUtxos)]
  /\ pc' = "ret"
  /\ UNCHANGED <<utxos, targetAmount, feeRate, effectiveUtxos, target, upperBound, totalRemaining, result, calls, first>>

\* Lines 57-60: past the end or above the upper bound.
DeadEnd ==
  /\ pc = "loop" /\ stack # <<>>
  /\ ~IsAccept(Top, target, upperBound)
  /\ IsDeadEnd(Top, effectiveUtxos, upperBound)
  /\ node' = Top
  /\ stack' = Popped
  /\ visited' = Append(visited, Top)
  /\ UNCHANGED <<utxos, targetAmount, feeRate, pc, effectiveUtxos, target, upperBound, totalRemaining, bestSelection, result, calls, first>>

\* Lines 62-65: the rest cannot reach the target.
Prune ==
  /\ pc = "loop" /\ stack # <<>>
  /\ ~IsAccept(Top, target, upperBound)
  /\ ~IsDeadEnd(Top, effectiveUtxos, upperBound)
  /\ IsPrune(Top, totalRemaining, target)
  /\ node' = Top
  /\ stack' = Popped
  /\ visited' = Append(visited, Top)
  /\ UNCHANGED <<utxos, targetAmount, feeRate, pc, effectiveUtxos, target, upperBound, totalRemaining, bestSelection, result, calls, first>>

\* Lines 70-82: push the exclude child, then the include child.
Branch ==
  /\ pc = "loop" /\ stack # <<>>
  /\ ~IsAccept(Top, target, upperBound)
  /\ ~IsDeadEnd(Top, effectiveUtxos, upperBound)
  /\ ~IsPrune(Top, totalRemaining, target)
  /\ node' = Top
  /\ stack' = PushChildren(Popped, Top, effectiveUtxos)
  /\ visited' = Append(visited, Top)
  /\ UNCHANGED <<utxos, targetAmount, feeRate, pc, effectiveUtxos, target, upperBound, totalRemaining, bestSelection, result, calls, first>>

\* Line 48: the loop condition fails on an empty stack.
LoopExit ==
  /\ pc = "loop" /\ stack = <<>>
  /\ pc' = "ret"
  /\ UNCHANGED <<utxos, targetAmount, feeRate, effectiveUtxos, target, upperBound, totalRemaining, stack, node, bestSelection, result, visited, calls, first>>

\* Lines 86-99.
ReturnResult ==
  /\ pc = "ret" /\ ~bestSelection.null
  /\ result' = BuildResult(bestSelection.amounts, targetAmount, feeRate)
  /\ pc' = "done"
  /\ UNCHANGED <<utxos, targetAmount, feeRate, effectiveUtxos, target, upperBound, totalRemaining, stack, node, bestSelection, visited, calls, first>>

\* Line 101.
ReturnNull ==
  /\ pc = "ret" /\ bestSelection.null
  /\ result' = NullResult
  /\ pc' = "done"
  /\ UNCHANGED <<utxos, targetAmount, feeRate, effectiveUtxos, target, upperBound, totalRemaining, stack, node, bestSelection, visited, calls, first>>

\* The caller invokes the function again with the same arguments.
Reinvoke ==
  /\ pc = "done" /\ calls < MaxCalls
  /\ calls' = calls + 1
  /\ first' = IF calls = 1 THEN [res |-> result, sel |-> node.selectedUtxos] ELSE first
  /\ pc' = "start"
  /\ effectiveUtxos' = <<>>
  /\ target' = 0
  /\ upperBound' = 0
  /\ totalRemaining' = <<>>
  /\ stack' = <<>>
  /\ node' = RootNode
  /\ bestSelection' = NullSelection
  /\ result' = NullResult
  /\ visited' = <<>>
  /\ UNCHANGED <<utxos, targetAmount, feeRate>>

Next == Call \/ Accept \/ DeadEnd \/ Prune \/ Branch \/ LoopExit \/ ReturnResult \/ ReturnNull \/ Reinvoke

Spec == Init /\ [][Next]_vars

\* ------------------------------------------ the function as an operator
\* The while loop of lines 48-83 run to its end from stack st: the accepted
\* node, or RootNode with null set when the stack empties.
RECURSIVE SearchFrom(_, _, _, _, _)
SearchFrom(st, e, tr, tgt, ub) == IF st = <<>> THEN [null |-> TRUE, node |-> RootNode] ELSE LET n == st[Len(st)] rest == SubSeq(st, 1, Len(st) - 1) IN IF IsAccept(n, tgt, ub) THEN [null |-> FALSE, node |-> n] ELSE IF IsDeadEnd(n, e, ub) THEN SearchFrom(rest, e, tr, tgt, ub) ELSE IF IsPrune(n, tr, tgt) THEN SearchFrom(rest, e, tr, tgt, ub) ELSE SearchFrom(PushChildren(rest, n, e), e, tr, tgt, ub)

selectUtxoBnBOptimized(us, t, f) == LET e == CHOOSE x \in SortOutcomes(FilterDust(MapUnits(us, f))) : TRUE found == SearchFrom(<<RootNode>>, e, TotalRemaining(e), Target(t, f), UpperBound(t, f)) IN IF found.null THEN NullResult ELSE BuildResult(SelectionAmounts(found.node.selectedUtxos), t, f)

\* ------------------------------------------------- vocabulary of claims
Returned == pc = "done" /\ ~result.null

NoSolution == pc = "done" /\ result.null

RECURSIVE SumEffective(_, _)
SumEffective(amounts, f) == IF amounts = <<>> THEN 0 ELSE (amounts[1] - 148 * f) + SumEffective(Tail(amounts), f)

\* Raw amounts of the inputs at the (0-based) positions the accepted node holds.
SelectedPositions == [i \in 1..Len(node.selectedUtxos) |-> node.selectedUtxos[i].originalIndex]

RECURSIVE SumAt(_)
SumAt(positions) == IF positions = <<>> THEN 0 ELSE utxos[positions[1] + 1] + SumAt(Tail(positions))

\* C1: whenever a result is returned, the summed effective value
\* (amount - 148*feeRate) of the returned units lies between
\* target = targetAmount + 44*feeRate and upperBound = target + 44*feeRate.
C1_Bounds == Returned => /\ targetAmount + 44 * feeRate <= SumEffective(result.selectedUtxos, feeRate)
                         /\ SumEffective(result.selectedUtxos, feeRate) <= targetAmount + 44 * feeRate + 44 * feeRate

C1_Witness == Returned /\ Len(result.selectedUtxos) >= 2 /\ feeRate > 0

\* C2: whenever a result is returned its excess is not negative.
C2_ExcessNonNegative == Returned => result.excess >= 0

C2_Witness == Returned /\ feeRate > 0 /\ result.excess > 0 /\ Len(result.selectedUtxos) >= 1

\* Sum over all input units of the part of amount - 148*f that is positive.
RECURSIVE TotalEffective(_, _)
TotalEffective(amounts, f) == IF amounts = <<>> THEN 0 ELSE (IF amounts[1] - 148 * f > 0 THEN amounts[1] - 148 * f ELSE 0) + TotalEffective(Tail(amounts), f)

InsufficientFunds == TotalEffective(utxos, feeRate) < targetAmount + 44 * feeRate

InvalidInput == targetAmount <= 0 \/ feeRate < 0 \/ \E i \in 1..Len(utxos) : utxos[i] <= 0

\* C3 (as stated): if the call returns no solution at fee rate f, it returns
\* no solution at every higher fee rate with the same units and targetAmount
\* (read here over valid arguments only: positive amounts and targetAmount,
\* feeRate >= 0).
C3_MonotonicInfeasibility == (NoSolution /\ ~InvalidInput) => \A f2 \in FeeRates : f2 > feeRate => selectUtxoBnBOptimized(utxos, targetAmount, f2).null

\* C3 (amended): if the call returns no solution at fee rate f and the summed
\* effective value of all candidates at f is below target, it returns no
\* solution at every higher fee rate with the same units and targetAmount.
C3_InsufficientStaysInfeasible == (NoSolution /\ InsufficientFunds) => \A f2 \in FeeRates : f2 > feeRate => selectUtxoBnBOptimized(utxos, targetAmount, f2).null

C3_Witness == NoSolution /\ InsufficientFunds /\ feeRate = 1 /\ targetAmount > 0 /\ Len(effectiveUtxos) >= 2 /\ Len(visited) >= 1

Scenario2 == utxos = <<30000, 25000>> /\ targetAmount = 50000 /\ feeRate = 10

\* C4 (as stated): units [30000, 25000], targetAmount 50000, feeRate 10: the
\* sum of both effective values is inside the window and the call returns
\* selectedUtxos [30000, 25000], fee 3400, totalAmount 55000, excess 1600.
C4_Scenario2Accepted == (Scenario2 /\ pc = "done") => /\ target <= 28520 + 23520 /\ 28520 + 23520 <= upperBound
                                                      /\ result = [null |-> FALSE, selectedUtxos |-> <<30000, 25000>>, fee |-> 3400, totalAmount |-> 55000, excess |-> 1600]

\* C4 (amended): units [30000, 25000], targetAmount 50000, feeRate 10: the
\* effective values are 28520 and 23520, the window is [50440, 50880], the
\* sum of both, 52040, is above the window and the call returns no solution.
C4_Scenario2NoSolution == (Scenario2 /\ pc = "done") => /\ effectiveUtxos[1].effectiveValue = 28520 /\ effectiveUtxos[2].effectiveValue = 23520
                                                        /\ target = 50440 /\ upperBound = 50880
                                                        /\ 28520 + 23520 > upperBound
                                                        /\ result.null

C4_Witness == Scenario2 /\ pc = "done" /\ Len(visited) = 5

Outcome == IF pc # "done" THEN "pending" ELSE IF result.null THEN "NoSolution" ELSE "SelectionResult"

\* C5: a call with targetAmount <= 0, feeRate < 0 or a non-positive amount is
\* rejected before the search: no stack is built, no node is visited, no
\* selection is made, and the call ends neither in a SelectionResult nor in
\* NoSolution.
C5_InvalidInputRejected == InvalidInput => /\ stack = <<>> /\ visited = <<>> /\ pc # "loop"
                                           /\ bestSelection.null
                                           /\ Outcome \notin {"SelectionResult", "NoSolution"}

\* 1-based input positions of the units that survive the dust filter.
Candidates == {i \in 1..Len(utxos) : utxos[i] - 148 * feeRate > 0}

RECURSIVE SumOver(_)
SumOver(S) == IF S = {} THEN 0 ELSE LET i == CHOOSE x \in S : TRUE IN (utxos[i] - 148 * feeRate) + SumOver(S \ {i})

InWindow(v) == targetAmount + 44 * feeRate <= v /\ v <= targetAmount + 88 * feeRate

SubsetInWindowExists == \E S \in SUBSET Candidates : InWindow(SumOver(S))

\* Sorted positions (1-based) a discarded node could still have decided on.
RECURSIVE SumSorted(_)
SumSorted(S) == IF S = {} THEN 0 ELSE LET i == CHOOSE x \in S : TRUE IN effectiveUtxos[i].effectiveValue + SumSorted(S \ {i})

Discarded(n) == ~IsAccept(n, target, upperBound) /\ (IsDeadEnd(n, effectiveUtxos, upperBound) \/ IsPrune(n, totalRemaining, target))

NoWindowBelow(n) == \A S \in SUBSET ((n.idx + 1)..Len(effectiveUtxos)) : ~InWindow(n.currentEffectiveSum + SumSorted(S))

\* C6: for positive amounts, targetAmount > 0 and feeRate >= 0, the call
\* returns no solution exactly when no subset of the non-dust candidates has
\* a summed effective value in [target, upperBound]; a node discarded by the
\* dead-end or the prune rule has no completion inside the window; an empty
\* or all-dust unit list yields no solution.
C6_NoSolutionExact == ~InvalidInput => /\ pc = "done" => (result.null <=> ~SubsetInWindowExists)
                                       /\ \A k \in 1..Len(visited) : Discarded(visited[k]) => NoWindowBelow(visited[k])
                                       /\ (pc = "done" /\ Candidates = {}) => result.null

C6_Witness == ~InvalidInput /\ NoSolution /\ Len(effectiveUtxos) >= 3 /\ Len(visited) >= 7 /\ \E k \in 1..Len(visited) : visited[k].idx < Len(effectiveUtxos) /\ visited[k].currentEffectiveSum > 0 /\ IsPrune(visited[k], totalRemaining, target)

\* C7: whenever a result is returned, fee = (n*148 + 34 + 10) * feeRate for
\* n returned units, totalAmount is the sum of the raw amounts of the
\* returned units, and excess = totalAmount - targetAmount - fee.
C7_FeeFormula == Returned => /\ result.fee = (Len(result.selectedUtxos) * 148 + 34 + 10) * feeRate
                             /\ Len(result.selectedUtxos) = Len(SelectedPositions)
                             /\ \A i \in 1..Len(SelectedPositions) : result.selectedUtxos[i] = utxos[SelectedPositions[i] + 1]
                             /\ result.totalAmount = SumAt(SelectedPositions)
                             /\ result.excess = result.totalAmount - targetAmount - result.fee

C7_Witness == Returned /\ Len(result.selectedUtxos) = 2 /\ feeRate = 10 /\ result.fee = 3400

\* C8: no returned result contains a unit whose amount <= 148*feeRate, and
\* every candidate a search node can select has effectiveValue > 0.
C8_DustExclusion == /\ Returned => \A i \in 1..Len(result.selectedUtxos) : result.selectedUtxos[i] > 148 * feeRate
                    /\ \A i \in 1..Len(effectiveUtxos) : effectiveUtxos[i].effectiveValue > 0 /\ utxos[effectiveUtxos[i].originalIndex + 1] > 148 * feeRate
                    /\ \A k \in 1..Len(stack) : \A i \in 1..Len(stack[k].selectedUtxos) : stack[k].selectedUtxos[i].effectiveValue > 0

C8_Witness == Returned /\ Len(result.selectedUtxos) >= 1 /\ Len(effectiveUtxos) < Len(utxos) /\ feeRate > 0 /\ \E i \in 1..Len(utxos) : utxos[i] = 148 * feeRate

PositionsOf(sel) == [i \in 1..Len(sel) |-> sel[i].originalIndex]

RECURSIVE PreOrder(_)
PreOrder(n) == <<n>> \o (IF InWindow(n.currentEffectiveSum) \/ IsDeadEnd(n, effectiveUtxos, upperBound) \/ IsPrune(n, totalRemaining, target) THEN <<>> ELSE PreOrder(IncludeChild(n, effectiveUtxos)) \o PreOrder(ExcludeChild(n)))

IsPrefix(a, b) == Len(a) <= Len(b) /\ \A i \in 1..Len(a) : a[i] = b[i]

\* C10: over the candidates sorted by effective value descending, the nodes
\* are visited in depth-first pre-order with the include child before the
\* exclude child; the search halts at the first visited node whose running
\* sum is in [target, upperBound], returns that node's selection, and no node
\* visited before it was in the window; without such a node it visits the
\* whole pruned tree.
C10_IncludeFirstAcceptFirst == pc # "start" => /\ IsSortedDesc(effectiveUtxos)
                                               /\ IsPrefix(visited, PreOrder(RootNode))
                                               /\ \A k \in 1..(Len(visited) - 1) : ~InWindow(visited[k].currentEffectiveSum)
                                               /\ (visited # <<>> /\ InWindow(visited[Len(visited)].currentEffectiveSum)) => pc \in {"ret", "done"}
                                               /\ Returned => /\ InWindow(visited[Len(visited)].currentEffectiveSum)
                                                              /\ result.selectedUtxos = SelectionAmounts(visited[Len(visited)].selectedUtxos)
                                               /\ NoSolution => visited = PreOrder(RootNode)

C10_Witness == Returned /\ Len(visited) >= 5 /\ \E k \in 2..(Len(visited) - 1) : visited[k].idx = visited[k - 1].idx /\ visited[k].idx >= 2

\* One invocation runs to completion without suspension: a loop step that
\* is possible is eventually taken.
LoopStep == Accept \/ DeadEnd \/ Prune \/ Branch \/ LoopExit

\* A single invocation, from the call to its return.
NextOnce == Call \/ LoopStep \/ ReturnResult \/ ReturnNull

FairSpec == Init /\ [][NextOnce]_vars /\ WF_vars(LoopStep)

Accepted == pc \in {"ret", "done"} /\ ~bestSelection.null

Exhausted == pc \in {"ret", "done"} /\ bestSelection.null /\ stack = <<>>

StackBounded == /\ \A k \in 1..Len(stack) : stack[k].idx >= 0 /\ stack[k].idx <= Len(effectiveUtxos)
                /\ \A k \in 1..Len(visited) : visited[k].idx <= Len(effectiveUtxos)
                /\ Len(stack) <= Len(effectiveUtxos) + 1

\* C11: the search loop eventually reaches one of its two terminal states,
\* accepted or exhausted (stack empty); every node ever pushed has
\* idx <= number of candidates, and the stack never holds more than
\* (number of candidates + 1) nodes.
C11_Termination == /\ [](pc = "loop" => StackBounded)
                   /\ (pc = "loop") ~> (Accepted \/ Exhausted)
                   /\ [](pc \in {"ret", "done"} => (Accepted \/ Exhausted))

C11_Witness == Exhausted /\ pc = "ret" /\ Len(effectiveUtxos) = MaxLen /\ Len(visited) >= 2 * MaxLen + 1

\* C12: whenever a result is returned, excess equals the summed effective
\* value of the selected units minus target (targetAmount + 44*feeRate), and
\* so excess <= costOfChange = (34 + 10) * feeRate.
C12_ExcessWithinCostOfChange == Returned => /\ result.excess = SumEffective(result.selectedUtxos, feeRate) - (targetAmount + 44 * feeRate)
                                            /\ result.excess <= (34 + 10) * feeRate

C12_Witness == Returned /\ feeRate = 10 /\ result.excess > 0 /\ result.excess < 440 /\ Len(result.selectedUtxos) = 2

\* 1-based sorted position of candidate u, 0 when u is no candidate.
SortedPosition(u) == IF \E j \in 1..Len(effectiveUtxos) : effectiveUtxos[j] = u THEN CHOOSE j \in 1..Len(effectiveUtxos) : effectiveUtxos[j] = u ELSE 0

RECURSIVE SumEffectiveValues(_)
SumEffectiveValues(sel) == IF sel = <<>> THEN 0 ELSE (utxos[sel[1].originalIndex + 1] - 148 * feeRate) + SumEffectiveValues(Tail(sel))

NodeConsistent(n) == /\ n.currentEffectiveSum = SumEffectiveValues(n.selectedUtxos)
                     /\ \A i \in 1..Len(n.selectedUtxos) : SortedPosition(n.selectedUtxos[i]) >= 1 /\ SortedPosition(n.selectedUtxos[i]) <= n.idx
                     /\ \A i \in 1..(Len(n.selectedUtxos) - 1) : SortedPosition(n.selectedUtxos[i]) < SortedPosition(n.selectedUtxos[i + 1])

\* C13: for every node on the stack at every step, currentEffectiveSum is the
\* sum of effectiveValue over its selectedUtxos, and selectedUtxos holds
\* distinct candidates at sorted positions strictly below idx in increasing
\* position order; a returned result uses each input position at most once
\* and lists amounts in non-increasing effective-value order.
C13_NodeInvariant == /\ \A k \in 1..Len(stack) : NodeConsistent(stack[k])
                     /\ \A k \in 1..Len(visited) : NodeConsistent(visited[k])
                     /\ Returned => /\ \A i, j \in 1..Len(SelectedPositions) : i # j => SelectedPositions[i] # SelectedPositions[j]
                                    /\ \A i \in 1..(Len(result.selectedUtxos) - 1) : result.selectedUtxos[i] - 148 * feeRate >= result.selectedUtxos[i + 1] - 148 * feeRate

C13_Witness == Returned /\ Len(node.selectedUtxos) = 2 /\ SortedPosition(node.selectedUtxos[2]) = 3 /\ SortedPosition(node.selectedUtxos[1]) = 1 /\ stack # <<>>

====
